---- MODULE Spec2Model ----
(***************************************************************************)
(* The self-modification and restart protocol of the code agent:           *)
(*   agent.py  - the tools the agent calls during a turn (execute_code,    *)
(*               update_agent_code, check_last_update_status)              *)
(*   main.py   - module startup (load check, rollback), main_loop and the  *)
(*               self-relaunch with a resume token                         *)
(* The persisted state is the five files next to agent.py; the process     *)
(* state is main_loop's locals and the process environment.                *)
(***************************************************************************)
EXTENDS Integers, Sequences, FiniteSets, TLC

\* ------------------------------------------------------------------ bounds

\* Session ids are uuid4 values; the model draws them fresh from 1..MaxSessions.
MaxSessions == 2

\* Turns are started only while message_counter is below this cap.
MaxCounter == 11

SESSION_MESSAGE_LIMIT == 10

\* loop.py counts the clean exits of the agent it runs without limit; the model
\* lets the agent exit cleanly only while restart_count is below this cap.
MaxRestarts == 10

\* An incarnation spawns its successor only while fewer incarnations than
\* this are between their Popen and the end of their sys.exit(0).
MaxExiting == 1

max_consecutive_failures == 5

\* ----------------------------------------------------------------- sources

None == "none"

\* Source texts the generator (or the operator) can put in agent.py, one per
\* way the code treats a text:
\*   base    the shipped agent.py: parses, imports, defines root_agent
\*   good    another text like base
\*   broken  parses, raises at import (an undefined name at top level)
\*   slow    parses, defines root_agent, its import takes more than 10 s
\*   noroot  parses, imports, defines no root_agent
\*   bad     does not parse
\* and the text of a file that was opened for writing and not written:
\*   empty   parses, imports, defines no root_agent
Sources == {"base", "good", "broken", "slow", "noroot", "bad"}

\* ast.parse(code) succeeds.
Parses(code) == code # "bad"

\* `python -c "import agent"` ends with return code 0 (given time).
Imports(code) == code \in {"base", "good", "slow", "noroot", "empty"}

\* The import finishes within the 10 s of subprocess.run(timeout=10).
ImportsInTime(code) == code # "slow"

\* The imported module has the name root_agent.
DefinesRootAgent(code) == code \in {"base", "good", "slow"}

\* Code handed to execute_code, one per way exec(code) can end.
ExecCodes == {"result_42", "zero_division", "sys_exit", "keyboard_interrupt"}

\* ------------------------------------------------------- values and files

\* current_session_id = None (main.py:172); session ids are 1..MaxSessions.
NoSession == 0

\* An environment variable that is not set; a set one holds a JSON text,
\* modelled as the tuple of the values json.dumps wrote.
NoEnv == <<>>

\* A file that does not exist.
NoFile == [exists |-> FALSE]

\* json.dumps({"user_id": u, "session_id": s, "message_counter": m}).
JsonDumps(u, s, m) == <<u, s, m>>

\* json.loads(text) read under a key the payload does not have
\* (.get("turn_counter", 0)): the counter is always the default.
JsonLoads_wrong_key(text) ==
    [user_id         |-> text[1],
     session_id      |-> text[2],
     message_counter |-> 0]

\* json.loads(text) read as main_loop reads it: ["user_id"], ["session_id"],
\* .get("message_counter", 0).
JsonLoads(text) ==
    [user_id         |-> text[1],
     session_id      |-> text[2],
     message_counter |-> IF Len(text) >= 3 THEN text[3] ELSE 0]

\* sanitize_id(f"user_{TENANT_ID}") with TENANT_ID = "default".
DefaultUser == "user_default"

\* ------------------------------------------------------------ agent.py

\* execute_code(code): exec(code, {}) under try / except Exception / finally.
\* An Exception becomes a status=error result; SystemExit and KeyboardInterrupt
\* derive from BaseException, pass `except Exception` and leave the call
\* (raised names what leaves it).
execute_code(code) ==
    CASE code = "result_42" ->
           [raised |-> None, status |-> "success", error_message |-> None,
            traceback |-> None]
      [] code = "zero_division" ->
           [raised |-> None, status |-> "error",
            error_message |-> "division by zero",
            traceback |-> "Traceback ... ZeroDivisionError"]
      [] code = "sys_exit" ->
           [raised |-> "SystemExit", status |-> None, error_message |-> None,
            traceback |-> None]
      [] OTHER ->
           [raised |-> "KeyboardInterrupt", status |-> None,
            error_message |-> None, traceback |-> None]

\* validate_python_syntax(code): ast.parse under except SyntaxError.
validate_python_syntax(code) ==
    IF Parses(code)
    THEN [status |-> "success", message |-> "Syntax is valid"]
    ELSE [status |-> "error", message |-> "invalid syntax"]

\* update_agent_code with the backup written before the candidate is validated.
update_agent_code_backup_unvalidated(f, new_code, env) ==
    IF validate_python_syntax(new_code).status = "error"
    THEN [fs |-> [f EXCEPT !.backup = f.live], status |-> "error"]
    ELSE [fs |-> [f EXCEPT
                    !.backup        = f.live,
                    !.metadata      = [exists       |-> TRUE,
                                       reason       |-> "code_update",
                                       session_info |-> env],
                    !.live          = new_code,
                    !.needs_restart = TRUE],
          status |-> "success"]

\* update_agent_code that returns early, with nothing written, when the
\* candidate is the text agent.py already holds.
update_agent_code_skip_identical(f, new_code, env) ==
    IF validate_python_syntax(new_code).status = "error"
    THEN [fs |-> f, status |-> "error"]
    ELSE IF new_code = f.live
    THEN [fs |-> f, status |-> "success"]
    ELSE [fs |-> [f EXCEPT
                    !.backup        = f.live,
                    !.metadata      = [exists       |-> TRUE,
                                       reason       |-> "code_update",
                                       session_info |-> env],
                    !.live          = new_code,
                    !.needs_restart = TRUE],
          status |-> "success"]

\* update_agent_code with agent.py written before the backup is taken from it.
update_agent_code_live_first(f, new_code, env) ==
    IF validate_python_syntax(new_code).status = "error"
    THEN [fs |-> f, status |-> "error"]
    ELSE [fs |-> [f EXCEPT
                    !.live          = new_code,
                    !.backup        = new_code,
                    !.metadata      = [exists       |-> TRUE,
                                       reason       |-> "code_update",
                                       session_info |-> env],
                    !.needs_restart = TRUE],
          status |-> "success"]

\* update_agent_code(new_code) on the files f, with CURRENT_SESSION_INFO = env:
\* validate; backup := live; write .restart_metadata; live := new_code; write
\* .needs_restart.  Returns the files after the call and the returned status.
update_agent_code(f, new_code, env) ==
    IF validate_python_syntax(new_code).status = "error"
    THEN [fs |-> f, status |-> "error"]
    ELSE [fs |-> [f EXCEPT
                    !.backup        = f.live,
                    !.metadata      = [exists       |-> TRUE,
                                       reason       |-> "code_update",
                                       session_info |-> env],
                    !.live          = new_code,
                    !.needs_restart = TRUE],
          status |-> "success"]

\* check_last_update_status(): .error is looked at first and removed when
\* present; otherwise .restart_metadata is looked at and removed when present.
check_last_update_status(f) ==
    IF f.error.exists
    THEN [fs |-> [f EXCEPT !.error = NoFile], status |-> "error",
          message |-> "Last code update failed and was reverted"]
    ELSE IF f.metadata.exists
    THEN [fs |-> [f EXCEPT !.metadata = NoFile], status |-> "success",
          message |-> "Successfully restarted after code update"]
    ELSE [fs |-> f, status |-> "no_recent_update",
          message |-> "No recent code update detected"]

\* --------------------------------- update_agent_code, write by write

\* What open(path, 'w') leaves of a file when the write that follows fails.
Truncated == "empty"

\* How a `with open(path, 'w') as f: f.write(...)` block can end: written and
\* closed; open raises and the file is as it was; the file is opened (created
\* or cut to nothing) and the write or the close raises.
WriteOutcomes == {"ok", "open_fails", "write_fails"}

\* The candidates of the calls followed write by write: one that loads, one
\* that parses and does not load, one that does not parse.
CommitCandidates == {"good", "broken", "bad"}

write_order_live_first(i) ==
    CASE i = 1 -> "live" [] i = 2 -> "backup" [] i = 3 -> "metadata"
      [] OTHER -> "needs_restart"

\* The file the i-th with-block of update_agent_code writes (agent.py:127-147).
write_order(i) ==
    CASE i = 1 -> "backup" [] i = 2 -> "metadata" [] i = 3 -> "live"
      [] OTHER -> "needs_restart"

\* The files after the with-block that writes `file` has ended with outcome,
\* u being the locals of the call and env CURRENT_SESSION_INFO.
write_block(f, file, u, env, outcome) ==
    IF outcome = "open_fails" THEN f
    ELSE CASE file = "backup" ->
                [f EXCEPT !.backup = IF outcome = "ok" THEN u.backup_content
                                     ELSE Truncated]
           [] file = "metadata" ->
                [f EXCEPT !.metadata =
                    IF outcome = "ok"
                    THEN [exists |-> TRUE, reason |-> "code_update",
                          session_info |-> env]
                    ELSE [exists |-> TRUE, reason |-> Truncated,
                          session_info |-> NoEnv]]
           [] file = "live" ->
                [f EXCEPT !.live = IF outcome = "ok" THEN u.new_code
                                   ELSE Truncated]
           [] OTHER ->
                [f EXCEPT !.needs_restart = TRUE]

\* ------------------------------------------------------------- main.py

\* check_and_handle_restart_flag(): the flag's presence, and the flag removed.
check_and_handle_restart_flag(f) ==
    [found |-> f.needs_restart, fs |-> [f EXCEPT !.needs_restart = FALSE]]

\* test_agent_import(): `import agent` in a child process with timeout=10;
\* a non-zero return code gives (False, stderr), a TimeoutExpired is caught by
\* `except Exception` and gives (False, str(e)).
test_agent_import(code) ==
    IF ~Parses(code) THEN [success |-> FALSE, error |-> "SyntaxError"]
    ELSE IF ~Imports(code) THEN [success |-> FALSE, error |-> "NameError"]
    ELSE IF ~ImportsInTime(code)
    THEN [success |-> FALSE, error |-> "timed out after 10 seconds"]
    ELSE [success |-> TRUE, error |-> None]

\* `from agent import root_agent` in the process itself (main.py:98-102).
ImportRootAgent(code) ==
    Parses(code) /\ Imports(code) /\ DefinesRootAgent(code)

\* revert_agent_code(): nothing when no .backup exists; otherwise live :=
\* .backup, the load check again, and .error written when it passes,
\* sys.exit(1) when it does not.  error_info is built before the check, outside
\* any except block, so traceback.format_exc() is "NoneType: None".
revert_agent_code(f) ==
    IF f.backup = None
    THEN [fs |-> f, second |-> None, exit |-> FALSE]
    ELSE LET g == [f EXCEPT !.live = f.backup]
         IN  IF test_agent_import(g.live).success
             THEN [fs |-> [g EXCEPT !.error =
                             [exists    |-> TRUE,
                              error     |-> "Code import failed after update",
                              traceback |-> "NoneType: None"]],
                   second |-> "ok", exit |-> FALSE]
             ELSE [fs |-> g, second |-> "fail", exit |-> TRUE]

\* Module startup (main.py:89-102): the load check, revert_agent_code when it
\* fails, then the import of root_agent, with sys.exit(1) when that raises.
\* Returns the files, what the checks gave, and whether the process goes on.
ModuleStartup(f) ==
    LET first == test_agent_import(f.live)
        rv    == IF first.success
                 THEN [fs |-> f, second |-> None, exit |-> FALSE]
                 ELSE revert_agent_code(f)
        runs  == ~rv.exit /\ ImportRootAgent(rv.fs.live)
    IN  [fs       |-> rv.fs,
         first    |-> IF first.success THEN "ok" ELSE "fail",
         backup   |-> f.backup # None,
         second   |-> rv.second,
         outcome  |-> IF runs THEN "run" ELSE "fatal"]

\* ------------------------------------------------------------- loop.py

\* The ways subprocess.run(["adk", "web"], check=True) can end (loop.py:16):
\* it returns with returncode 0, raises CalledProcessError for any other
\* return code, raises another Exception (adk cannot be started), or the
\* user interrupts it.  With check=True the else of loop.py:24-26 is never
\* reached.
RunOutcomes == {"returned_0", "CalledProcessError", "Exception",
                "KeyboardInterrupt"}

Min(a, b) == IF a < b THEN a ELSE b

should_give_up_above(failures) == failures > max_consecutive_failures

\* loop.py:41.
should_give_up(failures) == failures >= max_consecutive_failures

\* loop.py:46.
backoff(failures) == Min(failures * 2, 30)

\* --------------------------------------------------------------- state

VARIABLES
    fs,                 \* agent.py and its .backup, .restart_metadata,
                        \* .needs_restart and .error files
    sessions,           \* the session store: the ids of the sessions created
    pc,                 \* where the process is: off | boot | main | loop |
                        \* turn | finally | exited
    exit_code,          \* exit status of the process that ended last
    env_resume,         \* os.environ["RESUME_SESSION_INFO"] of the process
    env_current,        \* os.environ["CURRENT_SESSION_INFO"] of the process
    user_id,            \* main_loop's locals
    current_session_id,
    message_counter,
    restart_requested,
    raised,             \* an exception on its way out of main_loop
    lastTool,           \* history: the tool call made by the last step, if any
    boot,               \* history: what the startup that just ran found
    pre_commit_live,    \* history: live as it was before the last commit
    handoff,            \* history: main_loop's locals when it saw the flag,
                        \* kept until the next incarnation starts a turn
    attempt,            \* history: what became of the last committed
                        \* candidate: none | pending | verified | reverted
    upd,                \* update_agent_code's locals while a call is followed
                        \* write by write: step is the with-block to run next
                        \* (0: no call), entry_live is history, agent.py as
                        \* the last call found it
    predecessor,        \* the number of incarnations that have spawned their
                        \* successor and have not exited yet
    loop_pc,            \* where loop.py is: off | launch | check | done
    restart_count,      \* loop.py's globals
    consecutive_failures,
    wait_time,
    last_run,           \* history: how loop.py's last launch ended
    loop_exit           \* exit status of loop.py

vars == <<fs, sessions, pc, exit_code, env_resume, env_current, user_id,
          current_session_id, message_counter, restart_requested, raised,
          lastTool, boot, pre_commit_live, handoff, attempt, upd,
          predecessor, loop_pc, restart_count, consecutive_failures,
          wait_time, last_run, loop_exit>>

\* The variables of loop.py, and the variables main.py's process leaves alone
\* when update_agent_code and the handover are taken as single steps.
loopVars == <<loop_pc, restart_count, consecutive_failures, wait_time,
              last_run, loop_exit>>

NoUpdate == [step |-> 0, new_code |-> None, backup_content |-> None,
             entry_live |-> None]

NoLoop ==
    /\ loop_pc = "off"
    /\ restart_count = 0
    /\ consecutive_failures = 0
    /\ wait_time = 0
    /\ last_run = None
    /\ loop_exit = None

NoTool == [name |-> None, arg |-> None, status |-> None, raised |-> None]

NoBoot == [first |-> None, backup |-> FALSE, second |-> None, outcome |-> None]

NoHandoff == [user_id |-> None, session_id |-> NoSession, message_counter |-> 0]

Running == pc \in {"main", "loop", "turn", "finally"}

\* A uuid4 not used before.
FreshSession == Cardinality(sessions) + 1

CanCreateSession == Cardinality(sessions) < MaxSessions

\* No process yet, nothing in the session store, no history.
NoProcess ==
    /\ sessions = {}
    /\ pc = "off"
    /\ exit_code = None
    /\ env_resume = NoEnv
    /\ env_current = NoEnv
    /\ user_id = None
    /\ current_session_id = NoSession
    /\ message_counter = 0
    /\ restart_requested = FALSE
    /\ raised = None
    /\ lastTool = NoTool
    /\ boot = NoBoot
    /\ pre_commit_live = None
    /\ handoff = NoHandoff
    /\ attempt = "none"
    /\ upd = NoUpdate
    /\ predecessor = 0
    /\ NoLoop

\* The repository as shipped: agent.py and none of the marker files.
Init ==
    /\ fs = [live |-> "base", backup |-> None, metadata |-> NoFile,
             needs_restart |-> FALSE, error |-> NoFile]
    /\ NoProcess

\* An installation whose agent.py is any text, with none of the marker files:
\* the only states in which a startup finds a failing agent.py and no .backup,
\* since update_agent_code is what writes .backup and nothing removes it.
InitAnyInstall ==
    /\ fs \in [live : Sources, backup : {None}, metadata : {NoFile},
               needs_restart : {FALSE}, error : {NoFile}]
    /\ NoProcess

\* A process starts with no locals, and an ended one has none.
FreshLocals ==
    /\ user_id' = None
    /\ current_session_id' = NoSession
    /\ message_counter' = 0
    /\ restart_requested' = FALSE
    /\ raised' = None
    /\ lastTool' = NoTool
    /\ boot' = NoBoot

\* ------------------------------------------------------------- actions

\* The operator starts main.py with no resume payload in the environment.
Launch ==
    /\ pc \in {"off", "exited"}
    /\ pc' = "boot"
    /\ env_resume' = NoEnv
    /\ env_current' = NoEnv
    /\ handoff' = NoHandoff
    /\ FreshLocals
    /\ UNCHANGED <<fs, sessions, exit_code, pre_commit_live>>
    /\ UNCHANGED <<attempt, upd, predecessor, loopVars>>

\* main.py:89-102, run when the module is loaded.  A process that exits takes
\* its environment with it.
Startup ==
    /\ pc = "boot"
    /\ LET r == ModuleStartup(fs)
       IN  /\ fs' = r.fs
           /\ boot' = [first |-> r.first, backup |-> r.backup,
                       second |-> r.second, outcome |-> r.outcome]
           /\ pc' = IF r.outcome = "run" THEN "main" ELSE "exited"
           /\ exit_code' = IF r.outcome = "run" THEN exit_code ELSE "1"
           /\ handoff' = IF r.outcome = "run" THEN handoff ELSE NoHandoff
           /\ env_resume' = IF r.outcome = "run" THEN env_resume ELSE NoEnv
           /\ env_current' = IF r.outcome = "run" THEN env_current ELSE NoEnv
    /\ lastTool' = NoTool
    /\ UNCHANGED <<sessions, user_id, current_session_id, message_counter,
                   restart_requested, raised, pre_commit_live>>
    /\ attempt' = IF attempt = "pending"
                  THEN (IF boot'.first = "ok" THEN "verified" ELSE "reverted")
                  ELSE attempt
    /\ UNCHANGED <<upd, predecessor, loopVars>>

\* main_loop up to the while (main.py:162-189): the resume payload is read
\* from the environment, which is left as it is.
MainLoopStart ==
    /\ pc = "main"
    /\ IF env_resume # NoEnv
       THEN LET session_data == JsonLoads(env_resume)
            IN  /\ user_id' = session_data.user_id
                /\ current_session_id' = session_data.session_id
                /\ message_counter' = session_data.message_counter
       ELSE /\ user_id' = DefaultUser
            /\ current_session_id' = NoSession
            /\ message_counter' = 0
    /\ restart_requested' = FALSE
    /\ pc' = "loop"
    /\ lastTool' = NoTool
    /\ boot' = NoBoot
    /\ UNCHANGED <<fs, sessions, exit_code, env_resume, env_current, raised,
                   pre_commit_live, handoff>>
    /\ UNCHANGED <<attempt, upd, predecessor, loopVars>>

\* The top of the while (main.py:193-195) when the flag is there.
LoopTopRestart ==
    /\ pc = "loop"
    /\ check_and_handle_restart_flag(fs).found
    /\ fs' = check_and_handle_restart_flag(fs).fs
    /\ restart_requested' = TRUE
    /\ pc' = "finally"
    /\ handoff' = [user_id |-> user_id, session_id |-> current_session_id,
                   message_counter |-> message_counter]
    /\ lastTool' = NoTool
    /\ UNCHANGED <<sessions, exit_code, env_resume, env_current, user_id,
                   current_session_id, message_counter, raised, boot,
                   pre_commit_live>>
    /\ UNCHANGED <<attempt, upd, predecessor, loopVars>>

\* The top of the while when the flag is not there (main.py:193-223): a
\* session is created when there is none, CURRENT_SESSION_INFO is set, and
\* invoke_agent starts the turn (creating the session if the store lacks it).
LoopTopTurn ==
    /\ pc = "loop"
    /\ ~check_and_handle_restart_flag(fs).found
    /\ message_counter < MaxCounter
    /\ current_session_id = NoSession => CanCreateSession
    /\ LET sid == IF current_session_id = NoSession
                  THEN FreshSession ELSE current_session_id
       IN  /\ current_session_id' = sid
           /\ sessions' = sessions \cup {sid}
           /\ env_current' = JsonDumps(user_id, sid, message_counter)
    /\ pc' = "turn"
    /\ handoff' = NoHandoff
    /\ lastTool' = NoTool
    /\ UNCHANGED <<fs, exit_code, env_resume, user_id, message_counter,
                   restart_requested, raised, boot, pre_commit_live>>
    /\ UNCHANGED <<attempt, upd, predecessor, loopVars>>

\* The agent calls execute_code during the turn.  An exception that leaves
\* execute_code leaves the turn with it: KeyboardInterrupt is caught at
\* main.py:240 (break), SystemExit by no handler of main_loop.
ToolExecuteCode(code) ==
    /\ pc = "turn"
    /\ LET r == execute_code(code)
       IN  /\ lastTool' = [name |-> "execute_code", arg |-> code,
                           status |-> r.status, raised |-> r.raised]
           /\ pc' = IF r.raised = None THEN "turn" ELSE "finally"
           /\ raised' = IF r.raised = "SystemExit" THEN "SystemExit" ELSE raised
    /\ UNCHANGED <<fs, sessions, exit_code, env_resume, env_current, user_id,
                   current_session_id, message_counter, restart_requested,
                   boot, pre_commit_live, handoff>>
    /\ UNCHANGED <<attempt, upd, predecessor, loopVars>>

\* The agent calls update_agent_code(new_code) during the turn.
ToolUpdateAgentCode(new_code) ==
    /\ pc = "turn"
    /\ LET r == update_agent_code(fs, new_code, env_current)
       IN  /\ fs' = r.fs
           /\ lastTool' = [name |-> "update_agent_code", arg |-> new_code,
                           status |-> r.status, raised |-> None]
           /\ pre_commit_live' = IF r.status = "success"
                                 THEN fs.live ELSE pre_commit_live
    /\ UNCHANGED <<sessions, pc, exit_code, env_resume, env_current, user_id,
                   current_session_id, message_counter, restart_requested,
                   raised, boot, handoff>>
    /\ attempt' = IF lastTool'.status = "success" THEN "pending" ELSE attempt
    /\ UNCHANGED <<upd, predecessor, loopVars>>

\* The agent calls check_last_update_status during the turn.
ToolCheckLastUpdateStatus ==
    /\ pc = "turn"
    /\ LET r == check_last_update_status(fs)
       IN  /\ fs' = r.fs
           /\ lastTool' = [name |-> "check_last_update_status", arg |-> None,
                           status |-> r.status, raised |-> None]
    /\ UNCHANGED <<sessions, pc, exit_code, env_resume, env_current, user_id,
                   current_session_id, message_counter, restart_requested,
                   raised, boot, pre_commit_live, handoff>>
    /\ UNCHANGED <<attempt, upd, predecessor, loopVars>>

\* invoke_agent returns (main.py:224-228) and the flag is there.
TurnReturnRestart ==
    /\ pc = "turn"
    /\ check_and_handle_restart_flag(fs).found
    /\ message_counter' = message_counter + 1
    /\ fs' = check_and_handle_restart_flag(fs).fs
    /\ restart_requested' = TRUE
    /\ pc' = "finally"
    /\ handoff' = [user_id |-> user_id, session_id |-> current_session_id,
                   message_counter |-> message_counter + 1]
    /\ lastTool' = NoTool
    /\ UNCHANGED <<sessions, exit_code, env_resume, env_current, user_id,
                   current_session_id, raised, boot, pre_commit_live>>
    /\ UNCHANGED <<attempt, upd, predecessor, loopVars>>

\* invoke_agent returns and the flag is not there (main.py:224-238): the
\* session is replaced by a new one at every SESSION_MESSAGE_LIMIT-th message.
TurnReturnContinue ==
    /\ pc = "turn"
    /\ ~check_and_handle_restart_flag(fs).found
    /\ LET n == message_counter + 1
       IN  IF n % SESSION_MESSAGE_LIMIT = 0
           THEN /\ CanCreateSession
                /\ current_session_id' = FreshSession
                /\ sessions' = sessions \cup {FreshSession}
                /\ message_counter' = 0
           ELSE /\ message_counter' = n
                /\ UNCHANGED <<current_session_id, sessions>>
    /\ pc' = "loop"
    /\ lastTool' = NoTool
    /\ UNCHANGED <<fs, exit_code, env_resume, env_current, user_id,
                   restart_requested, raised, boot, pre_commit_live, handoff>>
    /\ UNCHANGED <<attempt, upd, predecessor, loopVars>>

\* invoke_agent raises an Exception (main.py:243-247): the loop goes on.
TurnException ==
    /\ pc = "turn"
    /\ pc' = "loop"
    /\ lastTool' = NoTool
    /\ UNCHANGED <<fs, sessions, exit_code, env_resume, env_current, user_id,
                   current_session_id, message_counter, restart_requested,
                   raised, boot, pre_commit_live, handoff>>
    /\ UNCHANGED <<attempt, upd, predecessor, loopVars>>

\* The user interrupts the turn (main.py:240-242): break.
TurnKeyboardInterrupt ==
    /\ pc = "turn"
    /\ pc' = "finally"
    /\ lastTool' = NoTool
    /\ UNCHANGED <<fs, sessions, exit_code, env_resume, env_current, user_id,
                   current_session_id, message_counter, restart_requested,
                   raised, boot, pre_commit_live, handoff>>
    /\ UNCHANGED <<attempt, upd, predecessor, loopVars>>

\* The finally block with restart_requested (main.py:249-264): the next
\* incarnation is started with a copy of the environment in which
\* RESUME_SESSION_INFO is the resume payload, and this one exits with 0.
FinallyRestart ==
    /\ pc = "finally"
    /\ restart_requested
    /\ env_resume' = JsonDumps(user_id, current_session_id, message_counter)
    /\ pc' = "boot"
    /\ exit_code' = "0"
    /\ FreshLocals
    /\ UNCHANGED <<fs, sessions, env_current, pre_commit_live, handoff>>
    /\ UNCHANGED <<attempt, upd, predecessor, loopVars>>

\* The finally block without restart_requested: main_loop ends and the process
\* with it, with the status of the SystemExit when one is on its way out.
FinallyExit ==
    /\ pc = "finally"
    /\ ~restart_requested
    /\ pc' = "exited"
    /\ exit_code' = IF raised = "SystemExit" THEN "1" ELSE "0"
    /\ env_resume' = NoEnv
    /\ env_current' = NoEnv
    /\ FreshLocals
    /\ UNCHANGED <<fs, sessions, pre_commit_live, handoff>>
    /\ UNCHANGED <<attempt, upd, predecessor, loopVars>>

Next ==
    \/ Launch
    \/ Startup
    \/ MainLoopStart
    \/ LoopTopRestart
    \/ LoopTopTurn
    \/ \E code \in ExecCodes : ToolExecuteCode(code)
    \/ \E new_code \in Sources : ToolUpdateAgentCode(new_code)
    \/ ToolCheckLastUpdateStatus
    \/ TurnReturnRestart
    \/ TurnReturnContinue
    \/ TurnException
    \/ TurnKeyboardInterrupt
    \/ FinallyRestart
    \/ FinallyExit

Spec == Init /\ [][Next]_vars

SpecAnyInstall == InitAnyInstall /\ [][Next]_vars

\* ------------------------------- update_agent_code's actions, by write

\* update_agent_code is called (agent.py:111-126): a candidate that does not
\* parse is returned as an error; otherwise agent.py is read.
UpdateCall(new_code) ==
    /\ pc = "turn"
    /\ IF validate_python_syntax(new_code).status = "error"
       THEN /\ lastTool' = [name |-> "update_agent_code", arg |-> new_code,
                            status |-> "error", raised |-> None]
            /\ upd' = [NoUpdate EXCEPT !.entry_live = fs.live]
            /\ UNCHANGED pc
       ELSE /\ lastTool' = [name |-> "update_agent_code", arg |-> new_code,
                            status |-> None, raised |-> None]
            /\ pc' = "update"
            /\ upd' = [step |-> 1, new_code |-> new_code,
                       backup_content |-> fs.live, entry_live |-> fs.live]
    /\ UNCHANGED <<fs, sessions, exit_code, env_resume, env_current, user_id,
                   current_session_id, message_counter, restart_requested,
                   raised, boot, pre_commit_live, handoff, attempt,
                   predecessor, loopVars>>

\* The next with-block of the call (agent.py:127-147) ends.  A block that
\* raises ends the call in the except of agent.py:155-159; the last block
\* written ends it with status success (agent.py:149-154).
UpdateWrite(outcome) ==
    /\ pc = "update"
    /\ fs' = write_block(fs, write_order(upd.step), upd, env_current, outcome)
    /\ IF outcome = "ok" /\ upd.step < 4
       THEN /\ upd' = [upd EXCEPT !.step = upd.step + 1]
            /\ UNCHANGED <<pc, lastTool, attempt, pre_commit_live>>
       ELSE /\ upd' = [NoUpdate EXCEPT !.entry_live = upd.entry_live]
            /\ pc' = "turn"
            /\ lastTool' = [lastTool EXCEPT
                  !.status = IF outcome = "ok" THEN "success" ELSE "error"]
            /\ attempt' = IF outcome = "ok" THEN "pending" ELSE attempt
            /\ pre_commit_live' = IF outcome = "ok" THEN upd.entry_live
                                  ELSE pre_commit_live
    /\ UNCHANGED <<sessions, exit_code, env_resume, env_current, user_id,
                   current_session_id, message_counter, restart_requested,
                   raised, boot, handoff, predecessor, loopVars>>

\* main.py with the calls of update_agent_code followed write by write.  A
\* turn that leaves no flag ends here by TurnException only, which does to the
\* files what TurnReturnContinue does (nothing) and leaves the counters alone.
NextCommit ==
    \/ Launch
    \/ Startup
    \/ MainLoopStart
    \/ LoopTopRestart
    \/ LoopTopTurn
    \/ \E new_code \in CommitCandidates : UpdateCall(new_code)
    \/ \E outcome \in WriteOutcomes : UpdateWrite(outcome)
    \/ TurnReturnRestart
    \/ TurnException
    \/ FinallyRestart

SpecCommit == Init /\ [][NextCommit]_vars

\* --------------------------------------------- the handover, by step

exit_after_spawn_consumes_flag(f) == check_and_handle_restart_flag(f).fs

\* What the statements after subprocess.Popen (main.py:260-264: two prints
\* and sys.exit(0)) do to the files: nothing.
exit_after_spawn(f) == f

\* The finally block with restart_requested, up to and including the Popen
\* (main.py:249-259): the successor is a process of its own from here on, and
\* the model follows it.
FinallySpawn ==
    /\ pc = "finally"
    /\ restart_requested
    /\ predecessor < MaxExiting
    /\ env_resume' = JsonDumps(user_id, current_session_id, message_counter)
    /\ pc' = "boot"
    /\ predecessor' = predecessor + 1
    /\ FreshLocals
    /\ UNCHANGED <<fs, sessions, exit_code, env_current, pre_commit_live,
                   handoff, attempt, upd, loopVars>>

\* The rest of the finally block in the predecessor (main.py:260-264), at any
\* time after the Popen.
PredecessorExit ==
    /\ predecessor > 0
    /\ predecessor' = predecessor - 1
    /\ fs' = exit_after_spawn(fs)
    /\ exit_code' = "0"
    /\ UNCHANGED <<sessions, pc, env_resume, env_current, user_id,
                   current_session_id, message_counter, restart_requested,
                   raised, lastTool, boot, pre_commit_live, handoff, attempt,
                   upd, loopVars>>

\* main.py with the successor running while the predecessor is still on its
\* way out.
NextHandover ==
    \/ Launch
    \/ Startup
    \/ MainLoopStart
    \/ LoopTopRestart
    \/ LoopTopTurn
    \/ \E new_code \in Sources : ToolUpdateAgentCode(new_code)
    \/ TurnReturnRestart
    \/ TurnReturnContinue
    \/ TurnException
    \/ FinallySpawn
    \/ PredecessorExit

SpecHandover == Init /\ [][NextHandover]_vars

\* ----------------------------------------------------- loop.py's actions

\* main.py's variables, which loop.py leaves alone.
mainVars == <<fs, sessions, pc, exit_code, env_resume, env_current, user_id,
              current_session_id, message_counter, restart_requested, raised,
              lastTool, boot, pre_commit_live, handoff, attempt, upd,
              predecessor>>

\* The operator starts loop.py (loop.py:5-9).
LoopStart ==
    /\ loop_pc \in {"off", "done"}
    /\ loop_pc' = "launch"
    /\ restart_count' = 0
    /\ consecutive_failures' = 0
    /\ wait_time' = 0
    /\ last_run' = None
    /\ loop_exit' = None
    /\ UNCHANGED mainVars

\* One pass through the try statement (loop.py:10-38).
LoopRun(outcome) ==
    /\ loop_pc = "launch"
    /\ last_run' = outcome
    /\ CASE outcome = "returned_0" ->
              /\ restart_count < MaxRestarts
              /\ restart_count' = restart_count + 1
              /\ consecutive_failures' = 0
              /\ loop_pc' = "check"
              /\ UNCHANGED loop_exit
         [] outcome \in {"CalledProcessError", "Exception"} ->
              /\ consecutive_failures' = consecutive_failures + 1
              /\ loop_pc' = "check"
              /\ UNCHANGED <<restart_count, loop_exit>>
         [] outcome = "KeyboardInterrupt" ->
              /\ loop_pc' = "done"
              /\ loop_exit' = "0"
              /\ UNCHANGED <<restart_count, consecutive_failures>>
    /\ UNCHANGED <<wait_time, mainVars>>

\* loop.py:41-43: break, and the script ends after the while, which is exit
\* status 0.
LoopGiveUp ==
    /\ loop_pc = "check"
    /\ should_give_up(consecutive_failures)
    /\ loop_pc' = "done"
    /\ loop_exit' = "0"
    /\ UNCHANGED <<restart_count, consecutive_failures, wait_time, last_run,
                   mainVars>>

\* loop.py:45-48 and back to the top of the while.
LoopRetry ==
    /\ loop_pc = "check"
    /\ ~should_give_up(consecutive_failures)
    /\ wait_time' = IF consecutive_failures > 0
                    THEN backoff(consecutive_failures) ELSE wait_time
    /\ loop_pc' = "launch"
    /\ UNCHANGED <<restart_count, consecutive_failures, last_run, loop_exit,
                   mainVars>>

NextLoop ==
    \/ LoopStart
    \/ \E outcome \in RunOutcomes : LoopRun(outcome)
    \/ LoopGiveUp
    \/ LoopRetry

SpecLoop == Init /\ [][NextLoop]_vars

\* loop.py is one sequential script: once a launch has ended, the statements
\* after the try (loop.py:41-48) run.  Nothing makes a launch end.
SpecLoopFair ==
    SpecLoop /\ WF_vars(LoopGiveUp) /\ WF_vars(LoopRetry)

\* -------------------------------------------------------------- claims

\* C1: a candidate that fails syntax validation makes update_agent_code return
\* status=error and leaves agent.py, .backup, .restart_metadata, .needs_restart
\* (and .error) exactly as they were before the call.
C1_InvalidCandidateChangesNothing ==
    [][(lastTool'.name = "update_agent_code" /\ ~Parses(lastTool'.arg))
         => (lastTool'.status = "error" /\ fs' = fs)]_vars

\* C1 witness: a rejected candidate, called when a backup, a metadata record
\* and the restart flag of an earlier commit are there to be kept.
C1_Witness ==
    /\ lastTool.name = "update_agent_code"
    /\ lastTool.arg = "bad"
    /\ lastTool.status = "error"
    /\ fs.backup # None
    /\ fs.backup # fs.live
    /\ fs.metadata.exists
    /\ fs.needs_restart

\* C2: a successful update_agent_code ends with .backup equal to agent.py as it
\* was before the call, agent.py equal to the candidate, .restart_metadata and
\* .needs_restart present; also when the candidate is what agent.py held.
C2_CommitPostcondition ==
    [][(lastTool'.name = "update_agent_code" /\ lastTool'.status = "success")
         => /\ Parses(lastTool'.arg)
            /\ fs'.backup = fs.live
            /\ fs'.live = lastTool'.arg
            /\ fs'.metadata.exists
            /\ fs'.needs_restart]_vars

\* C2 witness: a commit of the text agent.py already held.
C2_Witness ==
    /\ lastTool.name = "update_agent_code"
    /\ lastTool.status = "success"
    /\ lastTool.arg = pre_commit_live
    /\ fs.live = lastTool.arg
    /\ fs.backup = fs.live
    /\ fs.metadata.exists
    /\ fs.needs_restart

C4_BackupLoads ==
    fs.backup # None =>
        (Parses(fs.backup) /\ test_agent_import(fs.backup).success)

\* C5 (as claimed): a startup whose load check fails and that has no .backup,
\* or whose load check fails again after the rollback, ends with the process
\* exited with a non-zero status.
C5_DoubleFailureIsFatal ==
    (boot.first = "fail" /\ (~boot.backup \/ boot.second = "fail"))
        => (pc = "exited" /\ exit_code = "1")

\* C6 (as claimed): a startup whose load check fails and whose .backup passes
\* the load check ends with agent.py equal to the pre-commit text, a .error
\* record present and the process going on to main_loop.
C6_RevertedBootRuns ==
    (boot.first = "fail" /\ boot.backup /\ boot.second = "ok")
        => (fs.live = pre_commit_live /\ fs.error.exists /\ pc = "main")

C8_ExecuteNeverPropagates ==
    lastTool.name = "execute_code" =>
        /\ lastTool.raised = None
        /\ lastTool.arg # "result_42" => lastTool.status = "error"
        /\ pc = "turn"

\* C9 (as claimed): of two check_last_update_status calls in a row, the second
\* returns no_recent_update.
C9_SecondCheckReturnsNone ==
    [][(lastTool.name = "check_last_update_status"
        /\ lastTool'.name = "check_last_update_status")
         => lastTool'.status = "no_recent_update"]_vars

\* C10 (as claimed): once main_loop has read RESUME_SESSION_INFO, the variable
\* is no longer set in the environment of the process.
C10_TokenClearedOnceRead ==
    pc \in {"loop", "turn", "finally"} => env_resume = NoEnv

\* C11 (as claimed): update_agent_code never commits a candidate while the
\* candidate of an earlier commit is unresolved, that is, has not yet gone
\* through the load check of a startup.
C11_NoCommitWhilePending ==
    [][(lastTool'.name = "update_agent_code" /\ lastTool'.status = "success")
         => attempt # "pending"]_vars

\* C16 (as claimed): the error text a rollback stores in .error is the error
\* output that test_agent_import returned for the text that failed.
C16_ErrorRecordCarriesFailure ==
    [][(pc = "boot" /\ boot'.first = "fail" /\ boot'.backup
        /\ boot'.second = "ok")
         => /\ fs'.error.exists
            /\ fs'.error.error = test_agent_import(fs.live).error]_vars

\* C17 (as claimed): check_last_update_status returns success only when the
\* last committed candidate passed the load check of a startup, and the
\* failed-and-reverted record only when the last committed candidate was
\* rolled back.
C17_StatusIsTrueOutcome ==
    [][lastTool'.name = "check_last_update_status"
         => /\ lastTool'.status = "success" => attempt = "verified"
            /\ lastTool'.status = "error" => attempt = "reverted"]_vars

\* C18 (as claimed): with a commit made in this incarnation, the turn is
\* followed by no other turn; when it ends, main_loop consumes the flag and
\* leaves the loop with restart_requested, then starts the next incarnation
\* and exits with 0.
C18_CommitEndsIncarnation ==
    [][/\ (attempt = "pending" /\ pc = "turn" /\ pc' # "turn")
           => \/ pc' = "finally" /\ restart_requested' /\ ~fs'.needs_restart
              \/ pc' = "loop" /\ fs'.needs_restart
       /\ (attempt = "pending" /\ pc = "loop")
           => pc' = "finally" /\ restart_requested' /\ ~fs'.needs_restart
       /\ (attempt = "pending" /\ pc = "finally")
           => pc' = "boot" /\ exit_code' = "0" /\ env_resume' # NoEnv]_vars

\* C14: loop.py's count of consecutive failed launches never exceeds
\* max_consecutive_failures (5), a launch that returns 0 sets it to 0, no
\* launch is made once it has reached 5, and once it has reached 5 the loop
\* ends.
C14_RetriesBounded ==
    /\ [][/\ consecutive_failures' <= max_consecutive_failures
          /\ (loop_pc = "launch" /\ loop_pc' # "launch")
              => /\ consecutive_failures < max_consecutive_failures
                 /\ last_run' = "returned_0" => consecutive_failures' = 0
          /\ (loop_pc = "check"
               /\ consecutive_failures >= max_consecutive_failures)
              => loop_pc' = "done"]_vars
    /\ (consecutive_failures = max_consecutive_failures) ~> (loop_pc = "done")

\* C14 witness: loop.py has stopped after five failed launches in a row that
\* followed a clean exit.
C14_Witness ==
    /\ loop_pc = "done"
    /\ consecutive_failures = max_consecutive_failures
    /\ restart_count > 0
    /\ last_run \in {"CalledProcessError", "Exception"}

\* C15 (as claimed): a process that ends because of an unrecoverable
\* condition (main.py: the load check fails with no loadable backup; loop.py:
\* the consecutive failures have reached the limit) ends with a non-zero exit
\* status.
C15_FatalExitIsNonZero ==
    /\ (pc = "exited" /\ boot.outcome = "fatal") => exit_code # "0"
    /\ (loop_pc = "done" /\ should_give_up(consecutive_failures))
        => loop_exit # "0"

\* C20 (as claimed): the wait before a retry doubles with every further
\* consecutive failure, 2^n seconds after n failures, and is at most 30.
C20_BackoffDoubles ==
    (loop_pc = "launch" /\ consecutive_failures > 0)
        => wait_time = Min(2 ^ consecutive_failures, 30)

\* C12: during a call of update_agent_code and when it has returned, also
\* when it has failed part-way, agent.py differs from the text it held when
\* the call began only if .backup holds that text.
C12_BackupBeforeLive ==
    (pc = "update" \/ lastTool.name = "update_agent_code")
        => (fs.live # upd.entry_live => fs.backup = upd.entry_live)

\* C12 witness: a call that failed while it wrote agent.py, so that agent.py
\* is cut short, with a .backup of an earlier commit replaced by this call.
C12_Witness ==
    /\ pc = "turn"
    /\ lastTool.name = "update_agent_code"
    /\ lastTool.status = "error"
    /\ fs.live = Truncated
    /\ upd.entry_live = "good"
    /\ fs.backup = "good"
    /\ pre_commit_live = "base"

\* C13 (as claimed): wherever main_loop can look for .needs_restart (the top
\* of the while, the return of a turn) and the flag is there, agent.py is a
\* complete committed candidate, never a text cut short.
C13_FlagImpliesLiveComplete ==
    (pc \in {"loop", "turn"} /\ fs.needs_restart) => fs.live # Truncated

\* C19: a step of an incarnation that has spawned its successor writes none
\* of agent.py, .backup, .needs_restart, .restart_metadata and .error, and
\* runs no turn: it leaves the files, the session store and the successor's
\* position as they are.
C19_PredecessorWritesNothing ==
    [][predecessor' < predecessor
         => /\ fs' = fs
            /\ sessions' = sessions
            /\ pc' = pc
            /\ lastTool' = lastTool]_vars

\* C19 witness: the successor has rolled agent.py back at its startup while
\* the incarnation that spawned it has not exited yet.
C19_Witness ==
    /\ predecessor > 0
    /\ pc = "main"
    /\ boot.first = "fail"
    /\ boot.backup
    /\ boot.second = "ok"
    /\ fs.error.exists

\* C21 (as claimed): no session is sent more than SESSION_MESSAGE_LIMIT (10)
\* messages: whenever main_loop starts a turn, message_counter is below 10, and
\* the turn does not go to a session that an incarnation handed over with 10
\* or more messages counted.
C21_SessionMessageLimit ==
    [][(pc = "loop" /\ pc' = "turn")
         => /\ message_counter' < SESSION_MESSAGE_LIMIT
            /\ ~(/\ handoff.session_id = current_session_id'
                 /\ handoff.message_counter >= SESSION_MESSAGE_LIMIT)]_vars

====
